---------------------------- MODULE Spec2Model ----------------------------
(***************************************************************************)
(* Hash-based signature schemes of the crate: Lamport, Winternitz, HORST,  *)
(* Merkle, Goldreich and SPHINCS, each an implementation of the trait      *)
(* SignatureScheme {gen_keys, sign, verify}.                               *)
(*                                                                         *)
(* Values.  A byte string is a sequence of integers.  A byte is 0..255.    *)
(* The output of SHA-256, SHA-512 and of the seeded generators is kept     *)
(* symbolic: a digest is the hashed byte string between two negative       *)
(* marker tokens, so that two digests are equal exactly when their         *)
(* preimages are (an ideal hash).  Concatenation of byte strings is \o, so *)
(* hash_pair(l, r) hashes l \o r as the code does.                         *)
(*                                                                         *)
(* Aborts.  An operation that panics (failed assert, index out of bounds,  *)
(* unwrap of an error, arithmetic overflow with overflow checks on)        *)
(* yields a result with ok = FALSE; verify yields "abort".                 *)
(***************************************************************************)
EXTENDS Integers, Sequences, FiniteSets, TLC

VARIABLES
    scheme,     \* which SignatureScheme implementation was constructed
    par,        \* the fields of the scheme object set by its new(..)
    pc,         \* "new" | "keyed" | "rekeyed" | "signed" | "done" | "exhausted"
    seed,       \* the Option<U256> given to gen_keys
    keys,       \* result of the first gen_keys call
    keys2,      \* result of a second gen_keys call with the same seed
    private,    \* the private key in use (Merkle advances it with next_key)
    msg,        \* the message given to sign
    rnd,        \* what the random generators inside sign returned
    sig,        \* the result of sign
    tampered,   \* the signature was altered after sign returned
    vmsg,       \* the message given to verify
    res,        \* the result of verify: "true" | "false" | "abort" | "none"
    leaves,     \* Merkle: leaf indices handed out so far, in order
    nk,         \* Merkle: the last next_key call, [from, some]
    used        \* SPHINCS: the one-time signatures made so far by sign

vars == <<scheme, par, pc, seed, keys, keys2, private, msg, rnd, sig,
          tampered, vmsg, res, leaves, nk, used>>

(***************************************************************************)
(* Bounds of the model.                                                    *)
(***************************************************************************)
MaxLogW == 5        \* Winternitz w = 2^1 .. 2^MaxLogW
MaxLamportLen == 1  \* Lamport msg_len = 1 .. MaxLamportLen
MaxTau == 4         \* HORST height tau = 1 .. MaxTau
MaxK == 4           \* HORST k = 1 .. MaxK
MaxHeight == 2      \* Merkle / Goldreich tree height, SPHINCS subtree height
MaxDepth == 2       \* SPHINCS depth d = 1 .. MaxDepth
MaxLeaves == 16     \* SPHINCS hypertrees signed twice have at most MaxLeaves leaves

(***************************************************************************)
(* Small helpers.                                                          *)
(***************************************************************************)
RECURSIVE Pow2(_)
Pow2(n) == IF n = 0 THEN 1 ELSE 2 * Pow2(n - 1)

RECURSIVE Pow(_, _)
Pow(b, n) == IF n = 0 THEN 1 ELSE b * Pow(b, n - 1)

Min(a, b) == IF a < b THEN a ELSE b

RECURSIVE SeqsUpTo(_, _)
SeqsUpTo(S, n) ==
    IF n = 0 THEN {<<>>}
    ELSE LET shorter == SeqsUpTo(S, n - 1)
         IN  shorter \cup {Append(s, b) : s \in shorter, b \in S}


\* Option<U256>
None == [some |-> FALSE, val |-> <<>>]
Some(v) == [some |-> TRUE, val |-> v]

\* usize::BITS and the number of bits of a byte
UsizeBits == 64
ByteBits == 8
HashBits == 256

\* n as `width` little-endian bytes (bytemuck::bytes_of of a usize has width 8)
RECURSIVE LeBytes(_, _)
LeBytes(n, width) ==
    IF width = 0 THEN <<>> ELSE <<n % 256>> \o LeBytes(n \div 256, width - 1)

bytes_of(n) == LeBytes(n, UsizeBits \div ByteBits)

\* rug Integer::to_digits::<u8>(Order::Lsf): little-endian, no leading zeros;
\* Integer::significant_digits::<u8>() is its length
RECURSIVE to_digits(_)
to_digits(n) == IF n = 0 THEN <<>> ELSE <<n % 256>> \o to_digits(n \div 256)

significant_digits(n) == Len(to_digits(n))

\* rug Integer::from_digits(bytes, Order::Lsf)
RECURSIVE from_digits(_)
from_digits(bytes) ==
    IF bytes = <<>> THEN 0 ELSE Head(bytes) + 256 * from_digits(Tail(bytes))

\* view_bits::<Lsb0>() of a byte string: bit 0 is the LSB of byte 0
RECURSIVE ByteToBits(_, _)
ByteToBits(b, n) ==
    IF n = 0 THEN <<>> ELSE <<b % 2>> \o ByteToBits(b \div 2, n - 1)

RECURSIVE view_bits(_)
view_bits(bytes) ==
    IF bytes = <<>> THEN <<>>
    ELSE ByteToBits(Head(bytes), ByteBits) \o view_bits(Tail(bytes))

(***************************************************************************)
(* util.rs / hash.rs / u256.rs                                             *)
(***************************************************************************)
hash(data) == <<-1>> \o data \o <<-2>>

\* for _ in 0..times { hash = hash(&hash) }: hash applied times times, which
\* encloses data in times pairs of hash's delimiters (hash_n(d, 0) = d and
\* hash_n(d, n + 1) = hash(hash_n(d, n)))
hash_n(data, times) == [i \in 1..times |-> -1] \o data \o [i \in 1..times |-> -2]

hash_pair(left, right) == hash(left \o right)

div_up(dividend, divisor) == (dividend + (divisor \div 2)) \div divisor

RECURSIVE BitLength(_)
BitLength(n) == IF n = 0 THEN 0 ELSE 1 + BitLength(n \div 2)

leading_zeros(n) == UsizeBits - BitLength(n)

floored_log(n) == UsizeBits - leading_zeros(n) - 1

RECURSIVE trailing_zeros(_)
trailing_zeros(n) == IF n % 2 = 1 THEN 0 ELSE 1 + trailing_zeros(n \div 2)

is_power_of_two(n) == n >= 1 /\ Pow2(trailing_zeros(n)) = n

(***************************************************************************)
(* Random sources.  The n-th 32-byte block drawn from a generator seeded   *)
(* with `s` is a symbolic value determined by the generator, s and n.      *)
(***************************************************************************)
StdRng(s, n) == <<-3, n>> \o s \o <<-4>>
Hc128Rng(s, n) == <<-5, n>> \o s \o <<-6>>
from_entropy(e) == <<-7, e, -8>>

\* the seeds given to gen_keys and the values the OS entropy source returns
Seeds == {<<1>>, <<2>>}
SeedOpts == {None} \cup {Some(s) : s \in Seeds}
Entropy == {1, 2}

\* messages: byte strings of at most two bytes, each 0 or 1
ByteMsgs == SeqsUpTo({0, 1}, 2)


(***************************************************************************)
(* winternitz.rs                                                           *)
(*                                                                         *)
(* A Winternitz message is named by its SHA-256 digest, a 256-bit integer  *)
(* too wide for the checker's integers: the message <<a, b>> is one whose  *)
(* digest has exactly the bits a .. b-1 set (bit 0 the least significant). *)
(* Integers handed to push_base_w are little-endian bit strings.           *)
(***************************************************************************)
DigestCuts == {0, 252, 255, 256}
WMsgs == {<<0, 0>>} \cup {m \in DigestCuts \X DigestCuts : m[1] < m[2]}

Sha256Bits(m) == [i \in 1..HashBits |-> IF m[1] <= i - 1 /\ i - 1 < m[2] THEN 1 ELSE 0]

RECURSIVE SumRange(_, _, _)
SumRange(s, lo, hi) ==
    IF lo > hi THEN 0
    ELSE IF lo = hi THEN s[lo]
    ELSE LET mid == (lo + hi) \div 2
         IN  SumRange(s, lo, mid) + SumRange(s, mid + 1, hi)

SumSeq(s) == SumRange(s, 1, Len(s))

\* number of significant bits of the integer with little-endian bits `bits`
SignificantBits(bits) ==
    LET set == {i \in 1..Len(bits) : bits[i] = 1}
    IN  IF set = {} THEN 0 ELSE CHOOSE i \in set : \A j \in set : j <= i

Winternitz_new(w) ==
    LET log_w == trailing_zeros(w)
        len1 == div_up(256, log_w)
        len2 == (floored_log(len1 * (w - 1)) \div log_w) + 1
        len == len1 + len2
    IN  [w |-> w, len1 |-> len1, len2 |-> len2, len |-> len]

Winternitz_gen_private(self, s) == [i \in 1..self.len |-> StdRng(s, i - 1)]

\* while i > 0 { push(i mod w); i /= w }: for w = 2^log_w the digits are the
\* groups of log_w bits, least significant first, up to the last group that
\* holds a set bit
push_base_w(self, bits) ==
    LET log_w == trailing_zeros(self.w)
        n == SignificantBits(bits)
        count == (n + log_w - 1) \div log_w
        bit(i) == IF i <= Len(bits) THEN bits[i] ELSE 0
        digit(j) == SumSeq([b \in 1..log_w |-> bit((j - 1) * log_w + b) * Pow2(b - 1)])
    IN  [j \in 1..count |-> digit(j)]

hash_counts(self, m) ==
    LET counts == push_base_w(self, Sha256Bits(m))
        checksum == SumSeq([i \in 1..Len(counts) |-> self.w - 1 - counts[i]])
    IN  counts \o push_base_w(self, view_bits(bytes_of(checksum)))

Winternitz_gen_keys(self, s, e) ==
    LET sd == IF s.some THEN s.val ELSE StdRng(from_entropy(e), 0)
        sk == Winternitz_gen_private(self, sd)
    IN  [private |-> sd,
         public |-> [i \in 1..self.len |-> hash_n(sk[i], self.w - 1)]]

\* private.0.iter().zip(counts): as many entries as the shorter of the two
Winternitz_sign(self, m, priv) ==
    LET counts == hash_counts(self, m)
        sk == Winternitz_gen_private(self, priv)
    IN  [ok |-> TRUE,
         val |-> [i \in 1..Min(Len(sk), Len(counts)) |-> hash_n(sk[i], counts[i])]]

\* .all(..) stops at the first digit that does not match; public.0[i] and
\* sig.0[i] panic when i is out of bounds
Winternitz_verify(self, m, public, s) ==
    LET counts == hash_counts(self, m)
        oob(i) == i > Len(public) \/ i > Len(s)
        bad == {i \in 1..Len(counts) :
                    oob(i) \/ public[i] # hash_n(s[i], self.w - 1 - counts[i])}
        first == CHOOSE i \in bad : \A j \in bad : i <= j
    IN  IF bad = {} THEN "true" ELSE IF oob(first) THEN "abort" ELSE "false"

(***************************************************************************)
(* lamport.rs                                                              *)
(***************************************************************************)
\* fill_bytes over the key: entry i holds blocks 2i and 2i+1 of the stream
Lamport_gen_private(msg_len, s, e) ==
    LET sd == IF s.some THEN s.val ELSE from_entropy(e)
    IN  [i \in 1..(msg_len * ByteBits) |->
            <<Hc128Rng(sd, 2 * (i - 1)), Hc128Rng(sd, 2 * (i - 1) + 1)>>]

Lamport_gen_public(priv) == [i \in 1..Len(priv) |-> <<hash(priv[i][1]), hash(priv[i][2])>>]

\* Key::len / Signature::len: length in bytes
Lamport_len(k) == Len(k) \div ByteBits

Lamport_new(msg_len) == [msg_len |-> msg_len]

Lamport_gen_keys(self, s, e) ==
    LET priv == Lamport_gen_private(self.msg_len, s, e)
    IN  [private |-> priv, public |-> Lamport_gen_public(priv)]

Lamport_sign(self, m, priv) ==
    IF self.msg_len # Lamport_len(priv) \/ ~(Len(m) <= self.msg_len)
    THEN [ok |-> FALSE, val |-> <<>>]
    ELSE LET msg_bits == view_bits(m)
         IN  [ok |-> TRUE,
              val |-> [i \in 1..Len(msg_bits) |-> priv[i][msg_bits[i] + 1]]]

Lamport_verify(self, m, public, s) ==
    IF self.msg_len # Lamport_len(public) \/ ~(Len(m) <= self.msg_len)
    THEN "abort"
    ELSE IF Len(m) # Lamport_len(s) THEN "false"
    ELSE LET msg_bits == view_bits(m)
         IN  IF \A i \in 1..Len(msg_bits) : hash(s[i]) = public[i][msg_bits[i] + 1]
             THEN "true" ELSE "false"


(***************************************************************************)
(* horst.rs                                                                *)
(* private[i] of the code is priv[i + 1] here (sequences start at 1).      *)
(***************************************************************************)
Horst_new(height, k) ==
    [height |-> height, num_leaves |-> Pow2(height),
     x |-> floored_log(k) + 1, k |-> k]

RECURSIVE Horst_get_node(_, _, _)
Horst_get_node(priv, height, idx) ==
    IF height = 0 THEN hash(priv[idx + 1])
    ELSE hash_pair(Horst_get_node(priv, height - 1, idx * 2),
                   Horst_get_node(priv, height - 1, idx * 2 + 1))

\* Horst_get_path without idx /= 2
Horst_get_path_NoHalving(self, priv, leaf_idx) ==
    LET path_len == self.height - self.x
        sibling_idx == IF leaf_idx % 2 = 0 THEN leaf_idx + 1 ELSE leaf_idx - 1
    IN  [j \in 1..path_len |-> Horst_get_node(priv, j - 1, sibling_idx)]

Horst_get_path(self, priv, leaf_idx) ==
    LET path_len == self.height - self.x
        idx(height) == leaf_idx \div Pow2(height)
        sibling_idx(height) ==
            IF idx(height) % 2 = 0 THEN idx(height) + 1 ELSE idx(height) - 1
    IN  [j \in 1..path_len |-> Horst_get_node(priv, j - 1, sibling_idx(j - 1))]

Horst_transform_msg(self, m) ==
    LET int == from_digits(m)
    IN  [j \in 1..self.k |-> (int \div Pow(self.height, j - 1)) % self.height]

RECURSIVE Horst_inner(_, _, _, _)
Horst_inner(top_nodes_height, top_nodes, height, idx) ==
    IF height = top_nodes_height THEN top_nodes[idx + 1]
    ELSE hash_pair(Horst_inner(top_nodes_height, top_nodes, height - 1, idx * 2),
                   Horst_inner(top_nodes_height, top_nodes, height - 1, idx * 2 + 1))

Horst_get_root_from_top_nodes(self, top_nodes) ==
    Horst_inner(self.height - self.x, top_nodes, self.height, 0)

Horst_gen_keys(self, s, e) ==
    LET sd == IF s.some THEN s.val ELSE from_entropy(e)
        priv == [i \in 1..self.num_leaves |-> StdRng(sd, i - 1)]
    IN  [private |-> priv, public |-> Horst_get_node(priv, self.height, 0)]

Horst_sign(self, m, priv) ==
    IF ~(Len(m) * 8 <= self.k * self.height) THEN [ok |-> FALSE, val |-> <<>>]
    ELSE LET t == Horst_transform_msg(self, m)
             signature == [j \in 1..Len(t) |->
                              [sk |-> priv[t[j] + 1],
                               path |-> Horst_get_path(self, priv, t[j])]]
             top_nodes_len == Pow2(self.x)
             top_nodes_height == self.height - self.x
             top_nodes == [i \in 1..top_nodes_len |->
                              Horst_get_node(priv, top_nodes_height, i - 1)]
         IN  [ok |-> TRUE, val |-> [signature |-> signature, top_nodes |-> top_nodes]]

\* the inner loop of verify: the node and index reached from a leaf
RECURSIVE Horst_climb(_, _, _)
Horst_climb(node, idx, path) ==
    IF path = <<>> THEN [node |-> node, idx |-> idx]
    ELSE Horst_climb(IF idx % 2 = 0 THEN hash_pair(node, Head(path))
                                    ELSE hash_pair(Head(path), node),
                     idx \div 2, Tail(path))

\* msg.iter().zip(signature.iter()); top_nodes[idx] panics out of bounds;
\* the first pair that aborts or fails to match ends the loop
Horst_verify(self, m, public, s) ==
    LET t == Horst_transform_msg(self, m)
        signature == s.signature
        top_nodes == s.top_nodes
        top(j) == Horst_climb(hash(signature[j].sk), t[j], signature[j].path)
        oob(j) == top(j).idx >= Len(top_nodes)
        bad == {j \in 1..Min(Len(t), Len(signature)) :
                    oob(j) \/ top(j).node # top_nodes[top(j).idx + 1]}
        first == CHOOSE j \in bad : \A i \in bad : j <= i
    IN  IF bad # {} THEN (IF oob(first) THEN "abort" ELSE "false")
        ELSE IF Len(top_nodes) < Pow2(self.x) THEN "abort"
        ELSE IF Horst_get_root_from_top_nodes(self, top_nodes) = public
             THEN "true" ELSE "false"

(***************************************************************************)
(* lib.rs: the type parameters O (one-time scheme) and F (few-time scheme) *)
(* of Merkle, Goldreich and Sphincs.  Both are instantiated by a scheme    *)
(* whose keys and signatures are symbolic: the key pair is determined by   *)
(* the seed, a signature by the key and the message, and verify accepts    *)
(* exactly the signature that sign returns for that message and key.       *)
(***************************************************************************)
Inner(x) == SubSeq(x, 2, Len(x) - 1)

O_gen_keys(s, e) ==
    LET sd == IF s.some THEN s.val ELSE from_entropy(e)
    IN  [private |-> <<-11>> \o sd \o <<-12>>, public |-> <<-13>> \o sd \o <<-14>>]

O_sign(m, priv) == [ok |-> TRUE, val |-> <<-15>> \o Inner(priv) \o <<-16>> \o m \o <<-17>>]

O_verify(m, public, s) ==
    IF s = <<-15>> \o Inner(public) \o <<-16>> \o m \o <<-17>> THEN "true" ELSE "false"

F_gen_keys(s, e) ==
    LET sd == IF s.some THEN s.val ELSE from_entropy(e)
    IN  [private |-> <<-21>> \o sd \o <<-22>>, public |-> <<-23>> \o sd \o <<-24>>]

F_sign(m, priv) == [ok |-> TRUE, val |-> <<-25>> \o Inner(priv) \o <<-26>> \o m \o <<-27>>]

F_verify(m, public, s) ==
    IF s = <<-25>> \o Inner(public) \o <<-26>> \o m \o <<-27>> THEN "true" ELSE "false"

(***************************************************************************)
(* merkle.rs                                                               *)
(* Private = (U256, usize) is the pair <<seed, leaf_idx>>.                 *)
(***************************************************************************)
Merkle_new(tree_height) == [tree_height |-> tree_height]

Merkle_get_ots_pair(self, priv, idx) == O_gen_keys(Some(hash_pair(priv, bytes_of(idx))), 0)

RECURSIVE Merkle_get_node(_, _, _, _)
Merkle_get_node(self, priv, height, idx) ==
    IF height = self.tree_height
    THEN hash(Merkle_get_ots_pair(self, priv, idx).public)
    ELSE hash_pair(Merkle_get_node(self, priv, height + 1, idx * 2),
                   Merkle_get_node(self, priv, height + 1, idx * 2 + 1))

Merkle_next_key_Inclusive(self, priv) ==
    LET next == <<priv[1], priv[2] + 1>>
    IN  IF next[2] <= Pow2(self.tree_height) THEN Some(next) ELSE None

Merkle_next_key(self, priv) ==
    LET next == <<priv[1], priv[2] + 1>>
    IN  IF next[2] < Pow2(self.tree_height) THEN Some(next) ELSE None

Merkle_gen_keys(self, s, e) ==
    LET priv == IF s.some THEN StdRng(s.val, 0) ELSE StdRng(from_entropy(e), 0)
    IN  [private |-> <<priv, 0>>, public |-> Merkle_get_node(self, priv, 0, 0)]

\* Merkle_sign with the sibling taken next to the leaf index at every level
Merkle_sign_NoShift(self, m, priv) ==
    LET ots_pair == Merkle_get_ots_pair(self, priv[1], priv[2])
        leaf_sig == O_sign(m, ots_pair.private)
        idx(h) == priv[2]
        path == [j \in 1..self.tree_height |->
                    IF idx(j - 1) % 2 = 0
                    THEN Merkle_get_node(self, priv[1], self.tree_height - (j - 1), idx(j - 1) + 1)
                    ELSE Merkle_get_node(self, priv[1], self.tree_height - (j - 1), idx(j - 1) - 1)]
    IN  [ok |-> TRUE,
         val |-> [leaf_idx |-> priv[2], leaf_public |-> ots_pair.public,
                  leaf_sig |-> leaf_sig.val, path |-> path]]

\* Merkle_sign with the path started one level above the leaves
Merkle_sign_SkipLevel(self, m, priv) ==
    LET ots_pair == Merkle_get_ots_pair(self, priv[1], priv[2])
        leaf_sig == O_sign(m, ots_pair.private)
        idx(h) == priv[2] \div Pow2(h)
        path == [j \in 1..(self.tree_height - 1) |->
                    IF idx(j) % 2 = 0
                    THEN Merkle_get_node(self, priv[1], self.tree_height - j, idx(j) + 1)
                    ELSE Merkle_get_node(self, priv[1], self.tree_height - j, idx(j) - 1)]
    IN  [ok |-> TRUE,
         val |-> [leaf_idx |-> priv[2], leaf_public |-> ots_pair.public,
                  leaf_sig |-> leaf_sig.val, path |-> path]]

Merkle_sign(self, m, priv) ==
    LET ots_pair == Merkle_get_ots_pair(self, priv[1], priv[2])
        leaf_sig == O_sign(m, ots_pair.private)
        idx(h) == priv[2] \div Pow2(h)
        path == [j \in 1..self.tree_height |->
                    IF idx(j - 1) % 2 = 0
                    THEN Merkle_get_node(self, priv[1], self.tree_height - (j - 1), idx(j - 1) + 1)
                    ELSE Merkle_get_node(self, priv[1], self.tree_height - (j - 1), idx(j - 1) - 1)]
    IN  IF ~leaf_sig.ok THEN [ok |-> FALSE, val |-> <<>>]
        ELSE [ok |-> TRUE,
              val |-> [leaf_idx |-> priv[2], leaf_public |-> ots_pair.public,
                       leaf_sig |-> leaf_sig.val, path |-> path]]

\* the fold of verify over path[h..], h counted from 0
RECURSIVE Merkle_fold(_, _, _, _)
Merkle_fold(acc, leaf_idx, path, h) ==
    IF h = Len(path) THEN acc
    ELSE Merkle_fold(IF (leaf_idx \div Pow2(h)) % 2 = 0
                     THEN hash_pair(acc, path[h + 1])
                     ELSE hash_pair(path[h + 1], acc),
                     leaf_idx, path, h + 1)

Merkle_verify(self, m, public, s) ==
    LET ots == O_verify(m, s.leaf_public, s.leaf_sig)
    IN  IF ots # "true" THEN ots
        ELSE IF Merkle_fold(hash(s.leaf_public), s.leaf_idx, s.path, 0) = public
             THEN "true" ELSE "false"


(***************************************************************************)
(* goldreich.rs                                                            *)
(* tree[i] of sign is the key pair generated from the i-th block of the    *)
(* generator seeded with the private key; gen_keys draws blocks 0, 1, 2.   *)
(* A path entry (left, right, sig) is the tuple <<left, right, sig>>.      *)
(***************************************************************************)
Goldreich_new(tree_height) == [tree_height |-> tree_height]

\* Goldreich_gen_keys that fills the private key from the OS even when seeded
Goldreich_gen_keys_Entropy(self, s, e) ==
    LET priv == from_entropy(e)
        root == O_gen_keys(Some(Hc128Rng(priv, 0)), 0)
        left_public == O_gen_keys(Some(Hc128Rng(priv, 1)), 0).public
        right_public == O_gen_keys(Some(Hc128Rng(priv, 2)), 0).public
        rsig == O_sign(hash_pair(left_public, right_public), root.private)
    IN  [private |-> priv, public |-> <<root.public, rsig.val>>]

Goldreich_gen_keys(self, s, e) ==
    LET priv == IF s.some THEN s.val ELSE from_entropy(e)
        root_seed == Hc128Rng(priv, 0)
        left_child_seed == Hc128Rng(priv, 1)
        right_child_seed == Hc128Rng(priv, 2)
        root == O_gen_keys(Some(root_seed), 0)
        left_public == O_gen_keys(Some(left_child_seed), 0).public
        right_public == O_gen_keys(Some(right_child_seed), 0).public
        h == hash_pair(left_public, right_public)
        rsig == O_sign(h, root.private)
    IN  [private |-> priv, public |-> <<root.public, rsig.val>>]

Goldreich_tree(priv, i) == O_gen_keys(Some(Hc128Rng(priv, i)), 0)

\* the while loop of sign, from node idx with the hash of the level below
RECURSIVE Goldreich_walk(_, _, _, _)
Goldreich_walk(priv, idx, h, path) ==
    IF idx = 0 THEN path
    ELSE LET node == Goldreich_tree(priv, idx)
             parent_idx == (idx - 1) \div 2
             left_sibling == Goldreich_tree(priv, parent_idx * 2 + 1)
             right_sibling == Goldreich_tree(priv, parent_idx * 2 + 2)
             nsig == O_sign(h, node.private)
         IN  Goldreich_walk(priv, parent_idx,
                            hash_pair(left_sibling.public, right_sibling.public),
                            Append(path, <<left_sibling.public, right_sibling.public, nsig.val>>))

\* leaf_idx is the value rng.gen_range(num_leaves-1..tree_size) returned
Goldreich_sign(self, m, priv, leaf_idx) ==
    LET leaf == Goldreich_tree(priv, leaf_idx)
        leaf_sig == O_sign(m, leaf.private)
        parent_idx == (leaf_idx - 1) \div 2
        left_sibling == Goldreich_tree(priv, parent_idx * 2 + 1)
        right_sibling == Goldreich_tree(priv, parent_idx * 2 + 2)
        path == Goldreich_walk(priv, parent_idx,
                               hash_pair(left_sibling.public, right_sibling.public),
                               <<(<<left_sibling.public, right_sibling.public, leaf_sig.val>>)>>)
    IN  [ok |-> TRUE, val |-> [leaf_idx |-> leaf_idx, path |-> path]]

\* Goldreich_loop with idx = idx / 2 for the parent
RECURSIVE Goldreich_loop_Half(_, _, _, _)
Goldreich_loop_Half(idx, h, path, checked) ==
    IF path = <<>> THEN [res |-> "true", hash |-> h]
    ELSE LET entry == Head(path)
             node == IF idx % 2 = 0 THEN entry[2] ELSE entry[1]
             v == O_verify(h, node, entry[3])
         IN  IF v # "true" THEN [res |-> v, hash |-> h]
             ELSE Goldreich_loop_Half(idx \div 2, hash_pair(entry[1], entry[2]),
                                      Tail(path), checked)

\* the for loop of verify.  idx = (idx - 1) / 2 at idx = 0 panics with overflow
\* checks on; with them off it wraps to 2^63 - 1 and then stays of the form
\* 2^j - 1 (odd) for 63 steps, which the integer -1 mimics: -1 is odd and
\* (-1 - 1) \div 2 = -1
RECURSIVE Goldreich_loop(_, _, _, _)
Goldreich_loop(idx, h, path, checked) ==
    IF path = <<>> THEN [res |-> "true", hash |-> h]
    ELSE LET entry == Head(path)
             node == IF idx % 2 = 0 THEN entry[2] ELSE entry[1]
             v == O_verify(h, node, entry[3])
         IN  IF v # "true" THEN [res |-> v, hash |-> h]
             ELSE IF idx = 0 /\ checked THEN [res |-> "abort", hash |-> h]
             ELSE Goldreich_loop((idx - 1) \div 2, hash_pair(entry[1], entry[2]),
                                 Tail(path), checked)

Goldreich_verify(self, m, public, s, checked) ==
    LET walked == Goldreich_loop(s.leaf_idx, m, s.path, checked)
    IN  IF walked.res # "true" THEN walked.res
        ELSE O_verify(walked.hash, public[1], public[2])

(***************************************************************************)
(* sphincs.rs                                                              *)
(* Private = (U256, U256) is the pair <<sk1, sk2>>; a path entry           *)
(* (public, sig) is the tuple <<public, sig>>.                             *)
(***************************************************************************)
Sha512(data) == <<-31>> \o data \o <<-32>>

Sphincs_new(depth, sub_tree_height) ==
    [depth |-> depth, sub_tree_height |-> sub_tree_height,
     idx_len |-> div_up(depth * sub_tree_height + 1, 8),
     merkle |-> Merkle_new(sub_tree_height)]

\* Sphincs_get_sub_tree_keys with a tree seed that leaves the subtree index out
Sphincs_get_sub_tree_keys_NoIndex(self, priv, depth, idx) ==
    LET padding == self.idx_len - significant_digits(idx)
        tree_seed == hash(priv \o [i \in 1..self.idx_len |-> 0] \o bytes_of(depth))
        pair == Merkle_gen_keys(self.merkle, Some(tree_seed), 0)
    IN  IF padding < 0 THEN [ok |-> FALSE, private |-> <<>>, public |-> <<>>]
        ELSE [ok |-> TRUE, private |-> pair.private[1], public |-> pair.public]

\* padding = idx_len - significant_digits underflows when negative: a panic
\* with overflow checks on, and without them vec![0u8; padding] of nearly
\* 2^64 bytes panics with a capacity overflow
Sphincs_get_sub_tree_keys(self, priv, depth, idx) ==
    LET padding == self.idx_len - significant_digits(idx)
        tree_seed == hash(priv \o to_digits(idx) \o [i \in 1..padding |-> 0]
                               \o bytes_of(depth))
        pair == Merkle_gen_keys(self.merkle, Some(tree_seed), 0)
    IN  IF padding < 0 THEN [ok |-> FALSE, private |-> <<>>, public |-> <<>>]
        ELSE [ok |-> TRUE, private |-> pair.private[1], public |-> pair.public]

Sphincs_get_fts_keys(self, priv, idx) == F_gen_keys(Some(hash_pair(priv, to_digits(idx))), 0)

Sphincs_transform_msg(m, random) == Sha512(random \o m)

Sphincs_gen_keys(self, s, e) ==
    LET sd == IF s.some THEN s.val ELSE from_entropy(e)
        priv == <<StdRng(sd, 0), StdRng(sd, 1)>>
    IN  [private |-> priv,
         public |-> Sphincs_get_sub_tree_keys(self, priv[1], self.depth - 1, 0).public]

\* the for loop of sign from `depth` on: the path, or an abort
RECURSIVE Sphincs_path(_, _, _, _, _, _)
Sphincs_path(self, sk1, node, idx, depth, path) ==
    IF depth = self.depth THEN [ok |-> TRUE, val |-> path]
    ELSE LET num_sub_tree_leaves == Pow2(self.sub_tree_height)
             sub_tree_idx == idx % num_sub_tree_leaves
             up == idx \div num_sub_tree_leaves
             pair == Sphincs_get_sub_tree_keys(self, sk1, depth, up)
             msig == Merkle_sign(self.merkle, node, <<pair.private, sub_tree_idx>>)
         IN  IF ~pair.ok \/ ~msig.ok THEN [ok |-> FALSE, val |-> <<>>]
             ELSE Sphincs_path(self, sk1, pair.public, up, depth + 1,
                               Append(path, <<pair.public, msig.val>>))

\* fts_idx is the value Integer::random_below(num_leaves) returned and rbytes
\* the little-endian bytes (to_digits) of the value of Integer::random_bits(256);
\* try_into a [u8; 32] fails, and unwrap panics, unless there are exactly 32
Sphincs_sign(self, m, priv, fts_idx, rbytes) ==
    LET sk1 == priv[1]
        fts == Sphincs_get_fts_keys(self, sk1, fts_idx)
        tmsg == Sphincs_transform_msg(m, rbytes)
        fts_sig == F_sign(tmsg, fts.private)
        path == Sphincs_path(self, sk1, fts.public, fts_idx, 0, <<>>)
    IN  IF Len(rbytes) # 32 \/ ~fts_sig.ok \/ ~path.ok THEN [ok |-> FALSE, val |-> <<>>]
        ELSE [ok |-> TRUE,
              val |-> [fts_public |-> fts.public, fts_sig |-> fts_sig.val,
                       path |-> path.val, random |-> rbytes]]

\* the one-time signatures of the for loop of sign from `depth` on: the key
\* of leaf sub_tree_idx of the subtree (depth, idx) signs node; none once
\* get_sub_tree_keys has aborted
RECURSIVE Sphincs_ots_uses(_, _, _, _, _)
Sphincs_ots_uses(self, sk1, node, idx, depth) ==
    IF depth = self.depth THEN {}
    ELSE LET num_sub_tree_leaves == Pow2(self.sub_tree_height)
             sub_tree_idx == idx % num_sub_tree_leaves
             up == idx \div num_sub_tree_leaves
             pair == Sphincs_get_sub_tree_keys(self, sk1, depth, up)
             ots_pair == Merkle_get_ots_pair(self.merkle, pair.private, sub_tree_idx)
         IN  IF ~pair.ok THEN {}
             ELSE {[depth |-> depth, tree |-> up, leaf |-> sub_tree_idx,
                    key |-> ots_pair.private, value |-> node]}
                  \cup Sphincs_ots_uses(self, sk1, pair.public, up, depth + 1)

RECURSIVE Sphincs_fold(_, _, _)
Sphincs_fold(self, node, path) ==
    IF path = <<>> THEN [res |-> "true", node |-> node]
    ELSE LET v == Merkle_verify(self.merkle, node, Head(path)[1], Head(path)[2])
         IN  IF v # "true" THEN [res |-> v, node |-> node]
             ELSE Sphincs_fold(self, Head(path)[1], Tail(path))

Sphincs_verify(self, m, public, s) ==
    LET tmsg == Sphincs_transform_msg(m, s.random)
        f == F_verify(tmsg, s.fts_public, s.fts_sig)
        folded == Sphincs_fold(self, s.fts_public, s.path)
    IN  IF f # "true" THEN f
        ELSE IF folded.res # "true" THEN folded.res
        ELSE IF public = folded.node THEN "true" ELSE "false"


(***************************************************************************)
(* lib.rs: trait SignatureScheme.  A call of a trait method runs the       *)
(* method of the scheme that was constructed.                              *)
(***************************************************************************)
gen_keys(sch, self, s, e) ==
    CASE sch = "lamport" -> Lamport_gen_keys(self, s, e)
      [] sch = "winternitz" -> Winternitz_gen_keys(self, s, e)
      [] sch = "horst" -> Horst_gen_keys(self, s, e)
      [] sch = "merkle" -> Merkle_gen_keys(self, s, e)
      [] sch = "goldreich" -> Goldreich_gen_keys(self, s, e)
      [] sch = "sphincs" -> Sphincs_gen_keys(self, s, e)

\* r: what the generators inside sign returned (Goldreich: the leaf index;
\* SPHINCS: the leaf index and the 256 random bits)
sign(sch, self, m, priv, r) ==
    CASE sch = "lamport" -> Lamport_sign(self, m, priv)
      [] sch = "winternitz" -> Winternitz_sign(self, m, priv)
      [] sch = "horst" -> Horst_sign(self, m, priv)
      [] sch = "merkle" -> Merkle_sign(self, m, priv)
      [] sch = "goldreich" -> Goldreich_sign(self, m, priv, r.idx)
      [] sch = "sphincs" -> Sphincs_sign(self, m, priv, r.idx, r.bytes)

\* checked: whether the build checks arithmetic overflow
verify(sch, self, m, public, s, checked) ==
    CASE sch = "lamport" -> Lamport_verify(self, m, public, s)
      [] sch = "winternitz" -> Winternitz_verify(self, m, public, s)
      [] sch = "horst" -> Horst_verify(self, m, public, s)
      [] sch = "merkle" -> Merkle_verify(self, m, public, s)
      [] sch = "goldreich" -> Goldreich_verify(self, m, public, s, checked)
      [] sch = "sphincs" -> Sphincs_verify(self, m, public, s)

\* the one-time signatures a call of sign makes inside the SPHINCS hypertree
ots_uses(sch, self, priv, r) ==
    IF sch = "sphincs" /\ Len(r.bytes) = 32
    THEN Sphincs_ots_uses(self, priv[1], Sphincs_get_fts_keys(self, priv[1], r.idx).public,
                          r.idx, 0)
    ELSE {}

(***************************************************************************)
(* Inputs of the calls.                                                    *)
(***************************************************************************)
Msgs(sch) ==
    CASE sch = "winternitz" -> WMsgs
      [] sch \in {"lamport", "horst"} -> ByteMsgs
      [] OTHER -> {m \in ByteMsgs : Len(m) = 1}

\* to_digits of the 256 random bits: 32 bytes unless the top byte is zero
RandomBits == {[i \in 1..n |-> 1] : n \in {31, 32}}

SignRandom(sch, self) ==
    CASE sch = "goldreich" ->
            {[idx |-> i, bytes |-> <<>>] :
                i \in (Pow2(self.tree_height) - 1)..(Pow2(self.tree_height) * 2 - 2)}
      [] sch = "sphincs" ->
            {[idx |-> i, bytes |-> b] :
                i \in 0..(Pow(Pow2(self.sub_tree_height), self.depth) - 1),
                b \in RandomBits}
      [] OTHER -> {[idx |-> 0, bytes |-> <<>>]}


DropLast(q) == SubSeq(q, 1, Len(q) - 1)

\* another value of the scheme's Signature type than the one sign returned
Alter(sch, v) ==
    CASE sch = "lamport" -> DropLast(v)
      [] sch = "winternitz" -> DropLast(v)
      [] sch = "horst" -> [v EXCEPT !.top_nodes = DropLast(v.top_nodes)]
      [] sch = "merkle" -> [v EXCEPT !.path = DropLast(v.path)]
      [] sch = "goldreich" -> [v EXCEPT !.leaf_idx = 0]
      [] sch = "sphincs" -> [v EXCEPT !.path = DropLast(v.path)]

NoKeys == [private |-> <<>>, public |-> <<>>]
NoKeys2 == [done |-> FALSE, private |-> <<>>, public |-> <<>>]
NoSig == [ok |-> FALSE, val |-> <<>>]
NoCall == [from |-> -1, some |-> FALSE]
NoRandom == [idx |-> 0, bytes |-> <<>>]

(***************************************************************************)
(* Initial states: a scheme object after its constructor.                  *)
(***************************************************************************)
Start(sch, self) ==
    /\ scheme = sch
    /\ par = self
    /\ pc = "new"
    /\ seed = None
    /\ keys = NoKeys
    /\ keys2 = NoKeys2
    /\ private = <<>>
    /\ msg = <<>>
    /\ rnd = NoRandom
    /\ sig = NoSig
    /\ tampered = FALSE
    /\ vmsg = <<>>
    /\ res = "none"
    /\ leaves = <<>>
    /\ nk = NoCall
    /\ used = {}

InitLamport == \E n \in 1..MaxLamportLen : Start("lamport", Lamport_new(n))

InitWinternitz ==
    \E j \in 1..MaxLogW : is_power_of_two(Pow2(j)) /\ Start("winternitz", Winternitz_new(Pow2(j)))

InitHorst ==
    \E height \in 1..MaxTau, k \in 1..MaxK :
        /\ floored_log(k) + 1 <= height
        /\ Start("horst", Horst_new(height, k))

InitMerkle == \E h \in 0..MaxHeight : Start("merkle", Merkle_new(h))

InitGoldreich == \E h \in 1..MaxHeight : h >= 1 /\ Start("goldreich", Goldreich_new(h))

InitSphincs ==
    \E d \in 1..MaxDepth, h \in 1..MaxHeight : Start("sphincs", Sphincs_new(d, h))

InitHypertree ==
    \E d \in 1..MaxDepth, h \in 1..MaxHeight :
        /\ Pow(Pow2(h), d) <= MaxLeaves
        /\ Start("sphincs", Sphincs_new(d, h))

InitTrees ==
    \/ InitMerkle
    \/ InitGoldreich
    \/ InitSphincs

Init ==
    \/ InitLamport
    \/ InitWinternitz
    \/ InitHorst
    \/ InitMerkle
    \/ InitGoldreich
    \/ InitSphincs

(***************************************************************************)
(* Actions: the calls a user of the scheme makes.                          *)
(***************************************************************************)
GenKeys ==
    /\ pc = "new"
    /\ \E s \in SeedOpts, e \in Entropy :
          /\ seed' = s
          /\ keys' = gen_keys(scheme, par, s, e)
    /\ private' = keys'.private
    /\ leaves' = IF scheme = "merkle" THEN <<0>> ELSE <<>>
    /\ pc' = "keyed"
    /\ UNCHANGED <<scheme, par, keys2, msg, rnd, sig, tampered, vmsg, res, nk, used>>

\* a second gen_keys call with the same Option<U256>
GenKeysAgain ==
    /\ pc = "keyed"
    /\ leaves \in {<<>>, <<0>>}
    /\ \E e \in Entropy :
          LET k == gen_keys(scheme, par, seed, e)
          IN  keys2' = [done |-> TRUE, private |-> k.private, public |-> k.public]
    /\ pc' = "rekeyed"
    /\ UNCHANGED <<scheme, par, seed, keys, private, msg, rnd, sig, tampered,
                   vmsg, res, leaves, nk, used>>

Sign ==
    /\ pc = "keyed"
    /\ \E m \in Msgs(scheme), r \in SignRandom(scheme, par) :
          /\ msg' = m
          /\ rnd' = r
          /\ sig' = sign(scheme, par, m, private, r)
          /\ used' = used \cup ots_uses(scheme, par, private, r)
    /\ tampered' = FALSE
    /\ vmsg' = <<>>
    /\ res' = "none"
    /\ pc' = "signed"
    /\ UNCHANGED <<scheme, par, seed, keys, keys2, private, leaves, nk>>

\* a second sign call with the same private key
SignAgain ==
    /\ pc = "signed"
    /\ ~tampered
    /\ \E m \in Msgs(scheme), r \in SignRandom(scheme, par) :
          /\ msg' = m
          /\ rnd' = r
          /\ sig' = sign(scheme, par, m, private, r)
          /\ used' = used \cup ots_uses(scheme, par, private, r)
    /\ pc' = "resigned"
    /\ UNCHANGED <<scheme, par, seed, keys, keys2, private, tampered, vmsg, res,
                   leaves, nk>>

Tamper ==
    /\ pc = "signed"
    /\ sig.ok
    /\ ~tampered
    /\ Alter(scheme, sig.val) # sig.val
    /\ sig' = [ok |-> TRUE, val |-> Alter(scheme, sig.val)]
    /\ tampered' = TRUE
    /\ UNCHANGED <<scheme, par, pc, seed, keys, keys2, private, msg, rnd, vmsg,
                   res, leaves, nk, used>>

Verify ==
    /\ pc = "signed"
    /\ sig.ok
    /\ \E m \in Msgs(scheme), checked \in BOOLEAN :
          /\ vmsg' = m
          /\ res' = verify(scheme, par, m, keys.public, sig.val, checked)
    /\ pc' = "done"
    /\ UNCHANGED <<scheme, par, seed, keys, keys2, private, msg, rnd, sig,
                   tampered, leaves, nk, used>>

\* Goldreich verify called with a signature cut down from the one sign
\* returned: the first `cut` path entries dropped, leaf_idx moved to the
\* ancestor `cut` levels up ((idx - 1) / 2 each level), and as message the
\* hash of the last dropped entry's two siblings
VerifyShortened ==
    /\ scheme = "goldreich"
    /\ pc = "signed"
    /\ sig.ok
    /\ ~tampered
    /\ \E cut \in 1..Len(sig.val.path), checked \in BOOLEAN :
          LET short == [leaf_idx |-> ((sig.val.leaf_idx + 1) \div Pow2(cut)) - 1,
                        path |-> SubSeq(sig.val.path, cut + 1, Len(sig.val.path))]
              m == hash_pair(sig.val.path[cut][1], sig.val.path[cut][2])
          IN  /\ sig' = [ok |-> TRUE, val |-> short]
              /\ vmsg' = m
              /\ res' = verify(scheme, par, m, keys.public, short, checked)
    /\ tampered' = TRUE
    /\ pc' = "done"
    /\ UNCHANGED <<scheme, par, seed, keys, keys2, private, msg, rnd, leaves, nk, used>>

\* Merkle::next_key consumes the private key: after None there is no key left
NextKey ==
    /\ scheme = "merkle"
    /\ pc \in {"keyed", "done"}
    /\ LET next == Merkle_next_key(par, private)
       IN  /\ nk' = [from |-> private[2], some |-> next.some]
           /\ private' = IF next.some THEN next.val ELSE private
           /\ leaves' = IF next.some THEN Append(leaves, next.val[2]) ELSE leaves
           /\ pc' = IF next.some THEN "keyed" ELSE "exhausted"
    /\ msg' = <<>>
    /\ rnd' = NoRandom
    /\ sig' = NoSig
    /\ tampered' = FALSE
    /\ vmsg' = <<>>
    /\ res' = "none"
    /\ UNCHANGED <<scheme, par, seed, keys, keys2, used>>

Step ==
    \/ GenKeys
    \/ GenKeysAgain
    \/ Sign
    \/ Tamper
    \/ Verify

StepHypertree ==
    \/ GenKeys
    \/ Sign
    \/ SignAgain

StepShortened ==
    \/ Step
    \/ VerifyShortened

Next ==
    \/ Step
    \/ NextKey

Spec == Init /\ [][Next]_vars
SpecLamport == InitLamport /\ [][Step]_vars
SpecWinternitz == InitWinternitz /\ [][Step]_vars
SpecHorst == InitHorst /\ [][Step]_vars
SpecMerkle == InitMerkle /\ [][Next]_vars
SpecGoldreich == InitGoldreich /\ [][Step]_vars
SpecSphincs == InitSphincs /\ [][Step]_vars
SpecTrees == InitTrees /\ [][Next]_vars
SpecHypertree == InitHypertree /\ [][StepHypertree]_vars
SpecShortened == InitGoldreich /\ [][StepShortened]_vars


(***************************************************************************)
(* Claims.                                                                 *)
(***************************************************************************)
Signed == pc \in {"signed", "done"}
RoundTripDone == pc = "done" /\ ~tampered /\ vmsg = msg

\* C1: SPHINCS round trip.  For every depth d >= 1 and subtree height h >= 1,
\* every seed, message and leaf index fts_idx below (2^h)^d, sign returns a
\* signature and verify accepts it for the signed message under the public
\* key of gen_keys; the last path entry carries that public key.  (Stated
\* for the draws of the 256 random bits that fill 32 bytes.)
C1_SphincsRoundTrip ==
    scheme = "sphincs" /\ Len(rnd.bytes) = 32 =>
        /\ Signed => sig.ok
        /\ Signed /\ ~tampered =>
              sig.val.path[Len(sig.val.path)][1] = keys.public
        /\ RoundTripDone => res = "true"

\* C2: Merkle round trip at every leaf.  For every private key (seed, i)
\* reached from gen_keys by next_key, sign returns a signature that verify
\* accepts under the root, and folding hash(leaf_public) with the path
\* siblings, ordered by the bits of i, gives the root.
C2_MerkleRoundTrip ==
    scheme = "merkle" =>
        /\ Signed => sig.ok
        /\ Signed /\ ~tampered =>
              /\ sig.val.leaf_idx = private[2]
              /\ Merkle_fold(hash(sig.val.leaf_public), private[2], sig.val.path, 0)
                    = keys.public
        /\ RoundTripDone => res = "true"

C2_Witness ==
    /\ scheme = "merkle"
    /\ par.tree_height = 2
    /\ RoundTripDone
    /\ private[2] = 2
    /\ res = "true"

\* C3: Goldreich round trip for every leaf.  For every height h >= 1 and every
\* leaf index in [2^h - 1, 2*2^h - 1), the signature verifies under the public
\* key of gen_keys, whose root key and root signature are those of the nodes
\* 0, 1 and 2 that sign derives.
C3_GoldreichRoundTrip ==
    scheme = "goldreich" /\ pc # "new" =>
        /\ keys.public[1] = Goldreich_tree(keys.private, 0).public
        /\ keys.public[2] =
              O_sign(hash_pair(Goldreich_tree(keys.private, 1).public,
                               Goldreich_tree(keys.private, 2).public),
                     Goldreich_tree(keys.private, 0).private).val
        /\ Signed => sig.ok
        /\ RoundTripDone => res = "true"

C3_Witness ==
    /\ scheme = "goldreich"
    /\ par.tree_height = 2
    /\ rnd.idx = 4
    /\ RoundTripDone
    /\ res = "true"

\* C4: Winternitz round trip for every w = 2^j, j >= 1.  For every seed and
\* every digest, every digit of hash_counts has a chain in the key and an
\* entry in the signature, and verify accepts the signature for the signed
\* message.
C4_WinternitzRoundTrip ==
    scheme = "winternitz" =>
        /\ Signed /\ ~tampered =>
              /\ sig.ok
              /\ Len(hash_counts(par, msg)) <= Len(keys.public)
              /\ Len(sig.val) = Len(hash_counts(par, msg))
        /\ RoundTripDone => res = "true"

\* C5: verify is total.  Every verify call, whatever message and signature
\* value it is given, returns true or false and does not abort.
C5_VerifyTotal == pc = "done" => res \in {"true", "false"}

\* C6: HORST soundness across messages.  A signature of m2 is rejected for
\* every other message m1 (both within the length bound 8*|m| <= k*tau).
C6_HorstSoundness ==
    /\ scheme = "horst"
    /\ pc = "done"
    /\ ~tampered
    /\ vmsg # msg
    /\ Len(vmsg) * 8 <= par.k * par.height
    => res = "false"

\* C7: Merkle leaf counter.  From (seed, 0), next_key maps (seed, i) to
\* (seed, i + 1) and succeeds exactly when i + 1 < 2^h: the leaf indices handed
\* out are 0, 1, 2, .. in order without repetition, at most 2^h of them, and
\* after leaf 2^h - 1 no key is handed out.
C7_LeafCounter ==
    scheme = "merkle" /\ pc # "new" =>
        /\ leaves = [j \in 1..Len(leaves) |-> j - 1]
        /\ Len(leaves) <= Pow2(par.tree_height)
        /\ private = <<keys.private[1], Len(leaves) - 1>>
        /\ nk.from >= 0 => (nk.some <=> nk.from + 1 < Pow2(par.tree_height))
        /\ nk.from >= 0 /\ nk.some => private[2] = nk.from + 1
        /\ pc = "exhausted" => Len(leaves) = Pow2(par.tree_height)

C7_Witness ==
    /\ scheme = "merkle"
    /\ par.tree_height = 2
    /\ pc = "exhausted"
    /\ leaves = <<0, 1, 2, 3>>

\* C8: path lengths.  A signature returned by Merkle.sign has h path entries,
\* one returned by Goldreich.sign has h, one returned by SPHINCS.sign has d.
C8_PathLengths ==
    Signed /\ sig.ok /\ ~tampered =>
        /\ scheme = "merkle" => Len(sig.val.path) = par.tree_height
        /\ scheme = "goldreich" => Len(sig.val.path) = par.tree_height
        /\ scheme = "sphincs" => Len(sig.val.path) = par.depth

C8_Witness ==
    /\ scheme = "merkle"
    /\ pc = "signed"
    /\ sig.ok
    /\ ~tampered
    /\ private[2] = 3
    /\ Len(sig.val.path) = 2

\* C9: HORST round trip.  For tau >= x = floor(log2 k) + 1 and every message
\* with 8*|m| <= k*tau, the signature has k (secret, path) pairs with paths of
\* length tau - x and 2^x top nodes, every recomputed ancestor is the top node
\* at its index, an index below 2^x, and verify accepts.
C9_HorstRoundTrip ==
    scheme = "horst" /\ Len(msg) * 8 <= par.k * par.height =>
        /\ Signed => sig.ok
        /\ Signed /\ ~tampered =>
              /\ Len(sig.val.signature) = par.k
              /\ Len(sig.val.top_nodes) = Pow2(par.x)
              /\ \A j \in 1..par.k :
                    LET e == sig.val.signature[j]
                        top == Horst_climb(hash(e.sk), Horst_transform_msg(par, msg)[j], e.path)
                    IN  /\ Len(e.path) = par.height - par.x
                        /\ top.idx < Pow2(par.x)
                        /\ top.node = sig.val.top_nodes[top.idx + 1]
              /\ Horst_get_root_from_top_nodes(par, sig.val.top_nodes) = keys.public
        /\ RoundTripDone => res = "true"

C9_Witness ==
    /\ scheme = "horst"
    /\ par.height = 4
    /\ par.k = 4
    /\ msg = <<1, 1>>
    /\ RoundTripDone
    /\ res = "true"

\* C10: deterministic key generation.  Two gen_keys calls with the same
\* Some(seed) return the same private and the same public key, whatever the
\* entropy source would return.
C10_Deterministic ==
    pc = "rekeyed" /\ seed.some =>
        /\ keys2.private = keys.private
        /\ keys2.public = keys.public

C10_Witness ==
    /\ scheme = "goldreich"
    /\ pc = "rekeyed"
    /\ seed.some
    /\ keys2.public = keys.public

\* C11: the Winternitz checksum blocks forgery by advancing chains: when the
\* count sequences c of the verified message and c' of the signed message
\* differ, some position of c has no entry in the signature of the signed
\* message or has c[i] < c'[i], so hashing entries forward cannot reach c.
C11_ChecksumBlocksForgery ==
    scheme = "winternitz" /\ pc = "done" /\ ~tampered =>
        LET c == hash_counts(par, vmsg)
            c2 == hash_counts(par, msg)
        IN  c # c2 => \E i \in 1..Len(c) : i > Len(sig.val) \/ c[i] < c2[i]

\* C12: Winternitz::new computes len1 = ceil(256 / log2 w),
\* len2 = floor(log2(len1 * (w - 1))) / log2 w + 1 and len = len1 + len2.
C12_WinternitzLengths ==
    scheme = "winternitz" =>
        LET log_w == trailing_zeros(par.w)
            ceil == (HashBits + log_w - 1) \div log_w
        IN  /\ par.len1 = ceil
            /\ par.len2 = ((BitLength(par.len1 * (par.w - 1)) - 1) \div log_w) + 1
            /\ par.len = par.len1 + par.len2

\* C13: SPHINCS sign always yields a 32-byte R: for every message, key and
\* value of the 256 drawn bits, sign completes and the random field of the
\* signature is exactly 32 bytes, the bytes that were drawn.  (Stated for the
\* leaves whose subtree indices fit idx_len bytes, so that the seed derivation
\* of the path is not what stops sign.)
C13_SphincsRandom32 ==
    /\ scheme = "sphincs"
    /\ Signed
    /\ significant_digits(rnd.idx \div Pow2(par.sub_tree_height)) <= par.idx_len
    => /\ sig.ok
       /\ ~tampered => Len(sig.val.random) = 32 /\ sig.val.random = rnd.bytes

\* C14: Sphincs::new computes idx_len = ceil((d*h + 1) / 8), and every subtree
\* index that gen_keys (index 0) or sign (the leaf index divided by 2^h once
\* per level) hands to the seed derivation occupies at most idx_len bytes, so
\* the padding idx_len - bytes(idx) is never negative.
C14_SubtreeIndexWidth ==
    scheme = "sphincs" =>
        /\ par.idx_len = (par.depth * par.sub_tree_height + 1 + 7) \div 8
        /\ significant_digits(0) <= par.idx_len
        /\ Signed =>
              \A level \in 1..par.depth :
                  significant_digits(rnd.idx \div Pow(Pow2(par.sub_tree_height), level))
                      <= par.idx_len

\* C15: one-time keys stay one-time inside the SPHINCS hypertree: over the
\* sign calls made with one private key, every one-time key, whether named by
\* (depth, subtree index, leaf index) or by its key material, signs a single
\* value: at depth 0 the FTS public key of the one leaf that maps to it, above
\* that the root of the one child subtree below it.
C15_OneTimeInHypertree ==
    scheme = "sphincs" =>
        /\ \A u, v \in used :
              \/ u.key = v.key
              \/ (u.depth = v.depth /\ u.tree = v.tree /\ u.leaf = v.leaf)
              => u.value = v.value
        /\ \A u \in used :
              LET below == u.tree * Pow2(par.sub_tree_height) + u.leaf
              IN  u.value = IF u.depth = 0
                            THEN Sphincs_get_fts_keys(par, private[1], below).public
                            ELSE Sphincs_get_sub_tree_keys(par, private[1], u.depth - 1,
                                                           below).public

C15_Witness ==
    /\ scheme = "sphincs"
    /\ pc = "resigned"
    /\ par.depth = 2
    /\ par.sub_tree_height = 2
    /\ Cardinality(used) = 3

\* C16: Goldreich verify accepts only full-depth signatures: it returns true
\* only if leaf_idx is a leaf index in [2^h - 1, 2 * 2^h - 1) and the path has
\* exactly h entries, and no signature cut down from a valid one verifies for
\* a message that was never passed to sign.
C16_FullDepthOnly ==
    scheme = "goldreich" /\ pc = "done" /\ res = "true" =>
        /\ sig.val.leaf_idx \in (Pow2(par.tree_height) - 1)..(2 * Pow2(par.tree_height) - 2)
        /\ Len(sig.val.path) = par.tree_height
        /\ vmsg = msg

=============================================================================
